---- MODULE Spec2Model ----
(***************************************************************************)
(* regex-filter: rule-driven find-and-replace over a tree of files, with   *)
(* recursion into archives.  Two variants of the program are modelled:     *)
(*   "native"   = src/regex-filter.py  (zipfile / tarfile / gzip)          *)
(*   "extended" = src/regex_filter.py  (external 7z archiver)              *)
(* Text, file names and paths are sequences of one-character strings, so   *)
(* that str.replace, os.path.join, basename and re.sub are computed and    *)
(* not assumed.                                                            *)
(***************************************************************************)
EXTENDS Integers, Sequences, FiniteSets, TLC

VARIABLES
    variant,      \* which program runs: "native" | "extended"
    sevenzip,     \* extended: a 7z binary was found in PATH (global sevenzip)
    args,         \* parsed command line: [modify, rename, filter, input]
    filter_list,  \* global filter_list: the ordered rules, once loaded
    temp_dir,     \* global temp_dir / temp_dir_name: <<>> while not yet bound
    fs,           \* the file system: path -> node
    stack,        \* call stack of the traversal (innermost frame first)
    pc,           \* position of main()
    exit_code,    \* -1 while running, else the process's exit status
    log           \* status lines printed and file-system operations done

vars == <<variant, sevenzip, args, filter_list, temp_dir, fs, stack, pc, exit_code, log>>

----------------------------------------------------------------------------
(* Bounds of the model.                                                    *)

\* how many rules a rule file holds at most
MaxRules == 2
\* longest text the content modifier is checked on, on its own
MaxTextLen == 3
\* how deep the nested archive of the inputs is nested
MaxNest == 1
\* how many of the 62^5 random strings get_random_string may return
MaxRandom == 2

----------------------------------------------------------------------------
(* Strings.                                                                *)

Last(s) == s[Len(s)]

RECURSIVE Flatten(_)
\* "".join(parts)
Flatten(parts) ==
    IF parts = <<>> THEN <<>> ELSE Head(parts) \o Flatten(Tail(parts))

\* s[i:i+n] = t, without going out of range
IsAt(t, s, i) ==
    /\ i + Len(t) - 1 <= Len(s)
    /\ \A k \in 1..Len(t) : s[i + k - 1] = t[k]

StartsWith(s, t) == IsAt(t, s, 1)

\* str.endswith
EndsWith(s, t) == Len(t) <= Len(s) /\ IsAt(t, s, Len(s) - Len(t) + 1)

RECURSIVE ReplaceFrom(_, _, _, _)
ReplaceFrom(s, old, new, i) ==
    IF i > Len(s) THEN <<>>
    ELSE IF IsAt(old, s, i) THEN new \o ReplaceFrom(s, old, new, i + Len(old))
    ELSE <<s[i]>> \o ReplaceFrom(s, old, new, i + 1)

\* str.replace(old, new): every non-overlapping occurrence, left to right
\* (old is never empty here)
Replace(s, old, new) == ReplaceFrom(s, old, new, 1)

RECURSIVE LStrip(_, _)
\* str.lstrip(ch)
LStrip(s, ch) == IF s /= <<>> /\ Head(s) = ch THEN LStrip(Tail(s), ch) ELSE s

RECURSIVE RStrip(_, _)
\* str.rstrip(ch)
RStrip(s, ch) ==
    IF s /= <<>> /\ Last(s) = ch THEN RStrip(SubSeq(s, 1, Len(s) - 1), ch) ELSE s

Sep == "/"

\* positions of the path separator in p
SepPositions(p) == {i \in 1..Len(p) : p[i] = Sep}

LastSep(p) ==
    IF SepPositions(p) = {} THEN 0
    ELSE CHOOSE i \in SepPositions(p) : \A j \in SepPositions(p) : j <= i

\* os.path.basename: what follows the last separator
Basename(p) == SubSeq(p, LastSep(p) + 1, Len(p))

\* os.path.dirname: what precedes the last separator, trailing separators
\* stripped unless the head is all separators
Dirname(p) ==
    LET head == SubSeq(p, 1, LastSep(p))
    IN  IF RStrip(head, Sep) = <<>> THEN head ELSE RStrip(head, Sep)

\* os.path.join(a, b)
Join(a, b) ==
    IF b /= <<>> /\ Head(b) = Sep THEN b
    ELSE IF a = <<>> \/ Last(a) = Sep THEN a \o b
    ELSE a \o <<Sep>> \o b

RECURSIVE Squeeze(_)
\* runs of separators collapsed to one
Squeeze(p) ==
    IF Len(p) < 2 THEN p
    ELSE IF p[1] = Sep /\ p[2] = Sep THEN Squeeze(Tail(p))
    ELSE <<p[1]>> \o Squeeze(Tail(p))

\* the name the kernel resolves p to ("d//x/" names the same entry as
\* "d/x"); names hold neither "." nor ".." components in this model
Resolve(p) ==
    LET q == Squeeze(p)
    IN  IF Len(q) > 1 /\ Last(q) = Sep THEN SubSeq(q, 1, Len(q) - 1) ELSE q

----------------------------------------------------------------------------
(* Regular expressions: the patterns of the model are literal strings,     *)
(* matched with re.IGNORECASE; replacements are literal strings.           *)

Lower(c) ==
    CASE c = "A" -> "a"
      [] c = "B" -> "b"
      [] c = "C" -> "c"
      [] OTHER -> c

\* the pattern matches text at position i, ignoring case
MatchAtExact(regex, text, i) == IsAt(regex, text, i)

MatchAt(regex, text, i) ==
    /\ i + Len(regex) - 1 <= Len(text)
    /\ \A k \in 1..Len(regex) : Lower(text[i + k - 1]) = Lower(regex[k])

RECURSIVE Scan(_, _, _, _)
\* the scanner shared by re.findall, re.sub and re.subn: leftmost matches,
\* non-overlapping; an empty pattern matches once at every position.
\* Returns the pieces of the result: [m |-> matched text] or [c |-> kept char]
Scan(regex, sub, text, i) ==
    IF regex = <<>> THEN
        IF i > Len(text) THEN <<[m |-> TRUE, s |-> <<>>]>>
        ELSE <<[m |-> TRUE, s |-> <<>>], [m |-> FALSE, s |-> <<text[i]>>]>>
             \o Scan(regex, sub, text, i + 1)
    ELSE IF i > Len(text) THEN <<>>
    ELSE IF MatchAt(regex, text, i) THEN
        <<[m |-> TRUE, s |-> SubSeq(text, i, i + Len(regex) - 1)]>>
        \o Scan(regex, sub, text, i + Len(regex))
    ELSE <<[m |-> FALSE, s |-> <<text[i]>>]>> \o Scan(regex, sub, text, i + 1)

\* re.findall(regex, text, flags=re.IGNORECASE): the list of matches
re_findall(regex, text) ==
    LET pieces == Scan(regex, <<>>, text, 1)
    IN  SelectSeq(pieces, LAMBDA x : x.m)

\* re.sub(regex, sub, text, flags=re.IGNORECASE)
re_sub(regex, sub, text) ==
    LET pieces == Scan(regex, sub, text, 1)
    IN  Flatten([k \in 1..Len(pieces) |->
                    IF pieces[k].m THEN sub ELSE pieces[k].s])

\* re.subn(regex, sub, text, flags=re.IGNORECASE): (new text, count)
re_subn(regex, sub, text) ==
    [text |-> re_sub(regex, sub, text), count |-> Len(re_findall(regex, text))]

----------------------------------------------------------------------------
(* File contents.  A file is text, undecodable bytes, or an archive whose  *)
(* members m map a relative path to the member's contents.  fault is the   *)
(* exception the codec raises when the archive is extracted ("none": it    *)
(* extracts): a property of the archive's bytes, hence an input.           *)

NoMembers == <<>>

Data(t, s, m, gz, fault) == [t |-> t, s |-> s, m |-> m, gz |-> gz, fault |-> fault]

Dir == Data("dir", <<>>, NoMembers, FALSE, "none")
Text(s) == Data("text", s, NoMembers, FALSE, "none")
Bin == Data("bin", <<>>, NoMembers, FALSE, "none")
Zip(m, fault) == Data("zip", <<>>, m, FALSE, fault)
Tar(m, gz, fault) == Data("tar", <<>>, m, gz, fault)
\* a gzip stream wraps one unnamed member
Gzip(inner, fault) == Data("gzip", <<>>, (<<>> :> inner), FALSE, fault)
\* a format only the external archiver reads
SevenZ(m, fault) == Data("7z", <<>>, m, FALSE, fault)

IsArchiveData(d) == d.t \in {"zip", "tar", "gzip", "7z"}

\* the ArchiveKind of the spec's data model, read from the bytes
KindOf(d) ==
    CASE d.t = "zip" -> "zip"
      [] d.t = "tar" /\ d.gz -> "tar.gz"
      [] d.t = "tar" /\ ~d.gz -> "tar"
      [] d.t = "gzip" -> "gzip"
      [] d.t = "7z" -> "generic-external"
      [] OTHER -> "none"

----------------------------------------------------------------------------
(* The file system: a function from resolved paths to contents (Dir for a  *)
(* directory).  Every operation returns [err, f]: err = "none" and the new *)
(* file system, or the exception raised and the file system as it is left. *)

Ok(f) == [err |-> "none", f |-> f]
Raise(e, f) == [err |-> e, f |-> f]

Exists(f, p) == Resolve(p) \in DOMAIN f
IsDir(f, p) == Exists(f, p) /\ f[Resolve(p)].t = "dir"
IsFile(f, p) == Exists(f, p) /\ f[Resolve(p)].t /= "dir"

\* everything below directory d
Under(f, d) == {q \in DOMAIN f : StartsWith(q, d \o <<Sep>>)}

\* os.listdir(d), joined with d
Children(f, d) == {q \in Under(f, d) : Dirname(q) = d}

\* every proper ancestor of p, the root "/" excluded
Ancestors(p) == {SubSeq(p, 1, i - 1) : i \in {j \in SepPositions(p) : j > 1}}

Put(f, p, d) == [q \in DOMAIN f \cup {p} |-> IF q = p THEN d ELSE f[q]]
Drop(f, S) == [q \in DOMAIN f \ S |-> f[q]]

\* shutil.rmtree(p)
rmtree(f, p) == Drop(f, {Resolve(p)} \cup Under(f, Resolve(p)))

\* os.makedirs(p): the missing ancestors, then p itself, which must be new
makedirs(f, p) ==
    LET q == Resolve(p)
    IN  IF q \in DOMAIN f THEN Raise("FileExistsError", f)
        ELSE IF \E a \in Ancestors(q) : a \in DOMAIN f /\ f[a].t /= "dir"
             THEN Raise("NotADirectoryError", f)
        ELSE Ok([x \in DOMAIN f \cup Ancestors(q) \cup {q} |->
                    IF x \in DOMAIN f THEN f[x] ELSE Dir])

\* open(p, "w") ... write(d): creates or truncates p
WriteFile(f, p, d) ==
    LET q == Resolve(p)
    IN  IF ~Exists(f, Dirname(q)) THEN Raise("FileNotFoundError", f)
        ELSE IF ~IsDir(f, Dirname(q)) THEN Raise("NotADirectoryError", f)
        ELSE IF IsDir(f, q) \/ Last(p) = Sep THEN Raise("IsADirectoryError", f)
        ELSE Ok(Put(f, q, d))

\* the tree of an extracted or copied archive: root and members m below it
Tree(root, m) ==
    LET files == {Join(root, rel) : rel \in DOMAIN m}
        dirs  == {root} \cup
                 UNION {{a \in Ancestors(q) : StartsWith(a, root \o <<Sep>>)} : q \in files}
    IN  [x \in files \cup dirs |->
            IF x \in dirs THEN Dir
            ELSE m[CHOOSE rel \in DOMAIN m : Join(root, rel) = x]]

\* f with tree t laid over it
Overlay(f, t) == [x \in DOMAIN f \cup DOMAIN t |-> IF x \in DOMAIN t THEN t[x] ELSE f[x]]

\* the files (not directories) below d, as os.walk finds them
FilesUnder(f, d) == {q \in Under(f, d) : f[q].t /= "dir"}

\* q with the prefix src replaced by dst
Reroot(q, src, dst) == dst \o SubSeq(q, Len(src) + 1, Len(q))

\* os.rename(src, dst) on a POSIX system
os_rename(f, src, dst) ==
    LET s == Resolve(src)
        d == Resolve(dst)
        moved == {s} \cup Under(f, s)
        gone  == moved \cup {d} \cup Under(f, d)
    IN  IF s \notin DOMAIN f THEN Raise("FileNotFoundError", f)
        ELSE IF ~Exists(f, Dirname(d)) THEN Raise("FileNotFoundError", f)
        ELSE IF ~IsDir(f, Dirname(d)) THEN Raise("NotADirectoryError", f)
        ELSE IF d = s THEN Ok(f)
        ELSE IF StartsWith(d, s \o <<Sep>>) THEN Raise("OSError", f)
        ELSE IF IsDir(f, s) /\ IsFile(f, d) THEN Raise("NotADirectoryError", f)
        ELSE IF IsFile(f, s) /\ (IsDir(f, d) \/ Last(dst) = Sep)
             THEN Raise("IsADirectoryError", f)
        ELSE IF IsDir(f, s) /\ IsDir(f, d) /\ Under(f, d) /= {}
             THEN Raise("OSError", f)
        ELSE Ok([x \in (DOMAIN f \ gone) \cup {Reroot(q, s, d) : q \in moved} |->
                    IF x = d \/ StartsWith(x, d \o <<Sep>>)
                    THEN f[Reroot(x, d, s)] ELSE f[x]])

----------------------------------------------------------------------------
(* The log: the status lines the program prints (upper case) and, as       *)
(* ghost entries, the file-system operations it performs (lower case).     *)

\* e: what happened; p: the path; q: a second path or a text; n: a count
\* or flag; k: an ArchiveKind, where one is recorded
EvK(e, p, q, n, k) == [e |-> e, p |-> p, q |-> q, n |-> n, k |-> k]
Ev(e, p, q, n) == EvK(e, p, q, n, "")

None == <<>>

\* the status lines of section 7 of the specification
StatusLines == {"MODIFIED", "NOT_MODIFIED", "RENAMED", "NOT_RENAMED", "EXTRACT_ERROR"}

\* the result of a step of the program: the exception that escaped it
\* ("none" if none did), the file system it leaves and what it logged
Res(err, f, ev) == [err |-> err, f |-> f, ev |-> ev]

----------------------------------------------------------------------------
(* Content Modifier.                                                       *)

\* charset_normalizer finds an encoding and the file reads as text
Readable(f, path) == IsFile(f, path) /\ f[Resolve(path)].t = "text"

RECURSIVE modify_a_file_rules(_, _, _)
\* src/regex-filter.py, the loop of modify_a_file: findall counts, sub rewrites
modify_a_file_rules(rules, text, count) ==
    IF rules = <<>> THEN [text |-> text, count |-> count]
    ELSE LET r == Head(rules)
         IN  modify_a_file_rules(Tail(rules),
                                 re_sub(r.regex, r.sub, text),
                                 count + Len(re_findall(r.regex, text)))

RECURSIVE modify_file_rules(_, _, _)
\* src/regex_filter.py, the loop of modify_file: subn does both
modify_file_rules(rules, text, total_count) ==
    IF rules = <<>> THEN [text |-> text, count |-> total_count]
    ELSE LET r == Head(rules)
             n == re_subn(r.regex, r.sub, text)
         IN  modify_file_rules(Tail(rules), n.text, total_count + n.count)

RECURSIVE CountInOriginal(_, _)
CountInOriginal(rules, text) ==
    IF rules = <<>> THEN 0
    ELSE Len(re_findall(Head(rules).regex, text)) + CountInOriginal(Tail(rules), text)

\* a loop that counts every rule's matches in the text as it was read
ApplyRules_stale(v, rules, text) ==
    [text |-> modify_a_file_rules(rules, text, 0).text,
     count |-> CountInOriginal(rules, text)]

\* the loop of whichever variant runs
ApplyRules(v, rules, text) ==
    IF v = "native" THEN modify_a_file_rules(rules, text, 0)
    ELSE modify_file_rules(rules, text, 0)

\* the condition under which the file is written back
ShouldWrite(count) == count /= 0

\* a Content Modifier that says nothing of a file it leaves as it is
modify_a_file_silent(v, rules, f, path) ==
    IF ~Readable(f, path)
    THEN Res("none", f, <<Ev("call_modify", path, None, IF Exists(f, path) THEN 1 ELSE 0),
                         Ev("READ_ERROR", path, None, 0)>>)
    ELSE LET r == ApplyRules(v, rules, f[Resolve(path)].s)
         IN  IF ShouldWrite(r.count)
             THEN Res("none", Put(f, Resolve(path), Text(r.text)),
                      <<Ev("call_modify", path, None, 1),
                        Ev("write", path, r.text, 0),
                        Ev("MODIFIED", path, f[Resolve(path)].s, r.count)>>)
             ELSE Res("none", f, <<Ev("call_modify", path, None, 1)>>)

\* modify_a_file(path) / modify_file(path).  Ghost: "write" carries the text
\* written, the status line the text read
modify_a_file(v, rules, f, path) ==
    IF ~Readable(f, path)
    THEN Res("none", f, <<Ev("call_modify", path, None, IF Exists(f, path) THEN 1 ELSE 0),
                         Ev("READ_ERROR", path, None, 0)>>)
    ELSE LET r == ApplyRules(v, rules, f[Resolve(path)].s)
         IN  IF ShouldWrite(r.count)
             THEN Res("none", Put(f, Resolve(path), Text(r.text)),
                      <<Ev("call_modify", path, None, 1),
                        Ev("write", path, r.text, 0),
                        Ev("MODIFIED", path, f[Resolve(path)].s, r.count)>>)
             ELSE Res("none", f, <<Ev("call_modify", path, None, 1),
                                  Ev("NOT_MODIFIED", path, f[Resolve(path)].s, 0)>>)

----------------------------------------------------------------------------
(* Name Resolver.                                                          *)

RandomChars == <<"q", "a", "z", "j">>

\* five characters of string.ascii_letters + string.digits, then "_": the
\* model draws from MaxRandom of the 62^5 strings
RandomStrings == {[i \in 1..6 |-> IF i = 6 THEN "_" ELSE RandomChars[c]] : c \in 1..MaxRandom}

\* get_random_string()
get_random_string(r) == r

RECURSIVE ResolveName(_, _)
\* every rule applied to the name, in order
ResolveName(rules, name) ==
    IF rules = <<>> THEN name
    ELSE ResolveName(Tail(rules), re_sub(Head(rules).regex, Head(rules).sub, name))

\* the path the entry is renamed to: prefixed once if the resolved name is taken
NewPath(f, path, new_name, r) ==
    IF Exists(f, Join(Dirname(path), new_name))
    THEN Join(Dirname(path), get_random_string(r) \o new_name)
    ELSE Join(Dirname(path), new_name)

\* rename_a_file(path) / rename_file(path); r is the random string drawn if
\* one is needed.  Ghost: "call_rename" records whether path exists and the
\* ArchiveKind of its contents, "rename" whether the target existed when
\* os.rename was called (n = 1)
rename_a_file(rules, f, path, r) ==
    LET name     == Basename(path)
        new_name == ResolveName(rules, name)
        new_path == NewPath(f, path, new_name, r)
        done     == os_rename(f, path, new_path)
        call     == EvK("call_rename", path, None, IF Exists(f, path) THEN 1 ELSE 0,
                        IF Exists(f, path) THEN KindOf(f[Resolve(path)]) ELSE "missing")
    IN  IF new_name = name
        THEN Res("none", f, <<call, Ev("NOT_RENAMED", path, None, 0)>>)
        ELSE IF done.err /= "none" THEN Res(done.err, f, <<call>>)
        ELSE Res("none", done.f,
                 <<call,
                   Ev("rename", path, new_path,
                      IF Exists(f, new_path) /\ Resolve(new_path) /= Resolve(path)
                      THEN 1 ELSE 0),
                   Ev("RENAMED", path, new_path, 0)>>)

----------------------------------------------------------------------------
(* Archive Adapter, native variant: zipfile, tarfile, gzip.                *)

DotZip == <<".", "z", "i", "p">>
DotTar == <<".", "t", "a", "r">>
DotGz == <<".", "g", "z">>
DotTgz == <<".", "t", "g", "z">>
DotTarGz == DotTar \o DotGz

\* zipfile.is_zipfile(path): False for a path that does not exist
is_zipfile(f, path) == IsFile(f, path) /\ f[Resolve(path)].t = "zip"

\* tarfile.is_tarfile(path) for a path that exists (it raises otherwise);
\* a gzip-compressed tar is a tar file
is_tarfile(f, path) == IsFile(f, path) /\ f[Resolve(path)].t = "tar"

\* the name a file below temp gets in the repacked archive:
\* zpath.replace(temp, ""), leading separators dropped by the codec
Arcname(zpath, temp) == LStrip(Replace(zpath, temp, <<>>), Sep)

\* the members written by the os.walk loops of handle_zip and handle_tar
Pack(f, temp) ==
    LET files == FilesUnder(f, Resolve(temp))
    IN  [rel \in {Arcname(q, temp) : q \in files} |->
            f[CHOOSE q \in files : Arcname(q, temp) = rel]]

\* handle_zip, lines 41-50: the working directory, then extractall.
\* err "caught" is the except branch (error shown, handle_zip returns)
handle_zip_extract(f, path) ==
    LET temp == Replace(path, DotZip, <<>>)
        mk   == makedirs(f, temp)
        d    == f[Resolve(path)]
    IN  IF mk.err /= "none" THEN Res(mk.err, f, <<>>)
        ELSE IF d.fault = "none"
        THEN Res("none", Overlay(mk.f, Tree(Resolve(temp), d.m)),
                 <<EvK("extract", path, temp, 0, KindOf(d))>>)
        ELSE IF d.fault = "RuntimeError"
        THEN Res("caught", mk.f, <<EvK("EXTRACT_ERROR", path, None, 0, KindOf(d))>>)
        ELSE Res(d.fault, mk.f, <<>>)

\* handle_zip, lines 52-58: remove, write the new archive, discard temp
handle_zip_repack(f, path, temp) ==
    IF ~IsFile(f, path) THEN Res("FileNotFoundError", f, <<>>)
    ELSE Res("none",
             rmtree(Put(f, Resolve(path), Zip(Pack(f, temp), "none")), temp),
             <<EvK("repack", path, temp, 0, "zip")>>)

\* handle_tar, lines 64-70: the compression and the working directory are
\* read off the name
tar_is_gz(path) == EndsWith(path, <<"g", "z">>)

tar_temp(path) ==
    IF tar_is_gz(path)
    THEN Replace(Replace(path, DotTarGz, <<>>), DotTgz, <<>>)
    ELSE Replace(path, DotTar, <<>>)

\* handle_tar, lines 71-79
handle_tar_extract(f, path) ==
    LET temp == tar_temp(path)
        mk   == makedirs(f, temp)
        d    == f[Resolve(path)]
    IN  IF mk.err /= "none" THEN Res(mk.err, f, <<>>)
        ELSE IF tar_is_gz(path) /\ ~d.gz THEN Res("ReadError", mk.f, <<>>)
        ELSE IF d.fault = "none"
        THEN Res("none", Overlay(mk.f, Tree(Resolve(temp), d.m)),
                 <<EvK("extract", path, temp, 0, KindOf(d))>>)
        ELSE IF d.fault = "ExtractError"
        THEN Res("caught", mk.f, <<EvK("EXTRACT_ERROR", path, None, 0, KindOf(d))>>)
        ELSE Res(d.fault, mk.f, <<>>)

\* handle_tar, lines 81-87
handle_tar_repack(f, path, temp) ==
    IF ~IsFile(f, path) THEN Res("FileNotFoundError", f, <<>>)
    ELSE Res("none",
             rmtree(Put(f, Resolve(path), Tar(Pack(f, temp), tar_is_gz(path), "none")), temp),
             <<EvK("repack", path, temp, 0, IF tar_is_gz(path) THEN "tar.gz" ELSE "tar")>>)

\* gzip.open(path, "wb").write(d): a gzip stream around d; around a plain
\* tar it is a tar.gz
GzipOf(d) == IF d.t = "tar" /\ ~d.gz THEN Tar(d.m, TRUE, d.fault) ELSE Gzip(d, "none")

\* handle_gzip(path).  Ghost: "gz_extract" tells whether the path unpacked
\* to was there before
handle_gzip(rules, f, path) ==
    LET temp == Replace(path, DotGz, <<>>)
        d    == f[Resolve(path)]
        w    == WriteFile(f, temp, Text(<<>>))
        f1   == Put(w.f, Resolve(temp), d.m[<<>>])
        mod  == modify_a_file("native", rules, f1, temp)
        f3   == Put(mod.f, Resolve(path), GzipOf(mod.f[Resolve(temp)]))
    IN  IF w.err /= "none" THEN Res(w.err, f, <<>>)
        ELSE IF d.t /= "gzip" \/ d.fault = "BadGzipFile"
        THEN Res("none", w.f, <<EvK("EXTRACT_ERROR", path, None, 0, KindOf(d))>>)
        ELSE IF d.fault /= "none" THEN Res(d.fault, w.f, <<>>)
        ELSE Res("none", Drop(f3, {Resolve(temp)}),
                 <<EvK("gz_extract", path, temp, IF Exists(f, temp) THEN 1 ELSE 0, KindOf(d))>>
                 \o mod.ev
                 \o <<EvK("gz_repack", path, temp, 0, KindOf(f3[Resolve(path)]))>>)

----------------------------------------------------------------------------
(* Archive Adapter, extended variant: the external archiver.               *)

Tilde == <<"~">>
Temp7z == <<"_", "t", "e", "m", "p">>

\* "7z t -y -p0 file": "ok" (status 0), "failed" (non-zero status and a
\* "Type =" line: an archive that does not test clean), "not_archive"
Test7z(f, file) ==
    IF ~IsFile(f, file) THEN "not_archive"
    ELSE LET d == f[Resolve(file)]
         IN  IF ~IsArchiveData(d) THEN "not_archive"
             ELSE IF d.fault = "none" THEN "ok" ELSE "failed"

\* the name 7z gives the one member of a gzip stream
GunzipName(name) ==
    IF EndsWith(name, DotTgz) THEN SubSeq(name, 1, Len(name) - 4) \o DotTar
    ELSE IF EndsWith(name, DotGz) THEN SubSeq(name, 1, Len(name) - 3)
    ELSE name \o Tilde

\* what "7z x" unpacks: for a gzip stream (a tar.gz too) its one member
Extract7z(name, d) ==
    IF d.t = "gzip" THEN (GunzipName(name) :> d.m[<<>>])
    ELSE IF d.t = "tar" /\ d.gz THEN (GunzipName(name) :> Tar(d.m, FALSE, d.fault))
    ELSE d.m

\* what "7z a path ..." writes: the format follows the name's extension;
\* "none" when 7z writes nothing (a gzip stream holds one file)
Pack7z(name, m) ==
    IF EndsWith(name, DotZip) THEN Zip(m, "none")
    ELSE IF EndsWith(name, DotTar) THEN Tar(m, FALSE, "none")
    ELSE IF EndsWith(name, DotGz) \/ EndsWith(name, DotTgz)
    THEN IF Cardinality(DOMAIN m) = 1
         THEN GzipOf(m[CHOOSE rel \in DOMAIN m : TRUE])
         ELSE Data("none", <<>>, NoMembers, FALSE, "none")
    ELSE SevenZ(m, "none")

\* decompress(path): extract to a temporary directory, remove the archive,
\* copy the directory to the archive's path.  The status of "7z x" is not
\* looked at: when it fails (ok = FALSE) the temporary directory is empty
decompress(f, path, ok) ==
    LET p == Resolve(path)
    IN  Res("none",
            Overlay(Drop(f, {p}),
                    Tree(p, IF ok THEN Extract7z(Basename(p), f[p]) ELSE NoMembers)),
            <<EvK("extract", path, path, 0, KindOf(f[p]))>>)

\* compress(path): move the directory aside, archive it, discard it.  The
\* status of "7z a" is not looked at: when it fails (ok = FALSE) no archive
\* is written
compress(f, path, ok) ==
    LET temp == path \o Temp7z
        mv   == os_rename(f, path, temp)
        arc  == IF ok THEN Pack7z(Basename(path), Pack(mv.f, temp))
                ELSE Data("none", <<>>, NoMembers, FALSE, "none")
        f2   == IF arc.t = "none" THEN mv.f ELSE Put(mv.f, Resolve(path), arc)
    IN  IF mv.err /= "none" THEN Res(mv.err, f, <<>>)
        ELSE Res("none", rmtree(f2, temp),
                 <<EvK("repack", path, temp, 0, KindOf(arc))>>)

----------------------------------------------------------------------------
(* Inputs of a run.                                                        *)

\* tempfile.mkdtemp() / tempfile.TemporaryDirectory(): a fresh directory
TempRoot == <<"/", "T">>
\* args.output, an existing directory
OutputArg == <<"/", "O">>
RegexFilter == <<"R", "E", "G", "E", "X", "_", "F", "I", "L", "T", "E", "R">>
\* a file of an earlier run's output
OldOutput == <<"o", "l", "d">>

\* a command-line input: a file (its contents under the empty relative
\* path), a directory (its files by relative path) or a path that is missing
FileItem(name, d) == [path |-> name, exists |-> TRUE, isdir |-> FALSE, m |-> (<<>> :> d)]
DirItem(name, m) == [path |-> name, exists |-> TRUE, isdir |-> TRUE, m |-> m]
MissingItem(name) == [path |-> name, exists |-> FALSE, isdir |-> FALSE, m |-> NoMembers]

R_ab == [regex |-> <<"a">>, sub |-> <<"b">>]
R_bbc == [regex |-> <<"b", "b">>, sub |-> <<"c">>]
R_xa == [regex |-> <<"x">>, sub |-> <<"a">>]
R_cq == [regex |-> <<"c">>, sub |-> <<"q">>]
AllRules == <<R_ab, R_bbc, R_xa, R_cq>>

\* a rule whose replacement holds a path separator
R_sep == [regex |-> <<"u">>, sub |-> <<"n", "/", "u">>]

\* the rule files of the traversal runs: {}, {"a": "b"}, {"a": "b", "bb": "c"}, ...
\* and {"u": "n/u"}
FilterLists == {SubSeq(AllRules, 1, n) : n \in 0..MaxRules} \cup {<<R_sep>>}

T_aA == Text(<<"a", "A">>)
T_a == Text(<<"a">>)
T_c == Text(<<"c">>)
T_q == Text(<<"q">>)

OneFile == (<<"a">> :> T_a)

RECURSIVE Nested(_)
Nested(n) ==
    IF n = 0 THEN Zip(OneFile, "none")
    ELSE Zip((<<"i">> \o DotZip :> Nested(n - 1)), "none")

\* the inputs a run draws from
Items ==
    { \* three siblings: two that resolve to "b", one named like a prefixed "b"
      DirItem(<<"d">>, (<<"a">> :> T_aA) @@ (<<"b">> :> T_a)
                       @@ (<<"q", "q", "q", "q", "q", "_", "b">> :> T_q)),
      \* a file and its gzip-compressed copy
      DirItem(<<"g">>, (<<"x">> :> T_c) @@ (<<"x">> \o DotGz :> Gzip(T_a, "none"))),
      FileItem(<<"a">> \o DotZip,
               Zip(OneFile @@ (<<"n", "/", "c">> :> T_c) @@ (<<"u">> :> Bin), "none")),
      FileItem(<<"e">> \o DotZip, Zip(OneFile, "RuntimeError")),
      FileItem(<<"c">> \o DotZip, Zip(OneFile, "BadZipFile")),
      \* a gzip-compressed tar under the name of a plain one
      FileItem(<<"t">> \o DotTar, Tar(OneFile, TRUE, "none")),
      FileItem(<<"t">> \o DotTgz, Tar(OneFile, TRUE, "none")),
      FileItem(<<"u">> \o DotTar, Tar(OneFile, FALSE, "none")),
      FileItem(<<"v">> \o DotTar, Tar(OneFile, FALSE, "ReadError")),
      FileItem(<<"w">> \o DotTar, Tar(OneFile, FALSE, "ExtractError")),
      \* a zip in a zip (in a zip ...)
      FileItem(<<"o">> \o DotZip, Nested(MaxNest)),
      \* a zip of a file and its gzip-compressed copy, nothing matching a rule
      FileItem(<<"h">> \o DotZip,
               Zip((<<"x">> :> T_c) @@ (<<"x">> \o DotGz :> Gzip(T_c, "none")), "none")),
      FileItem(<<"s", ".", "7", "z">>, SevenZ(OneFile, "none")),
      \* a zip whose name has no ".zip"
      FileItem(<<"k">>, Zip(OneFile, "none")),
      \* text under a ".gz" name, and a truncated gzip stream
      FileItem(<<"p">> \o DotGz, T_a),
      FileItem(<<"y">> \o DotGz, Gzip(T_a, "EOFError")),
      MissingItem(<<"m">>) }

\* args.input: one of the items, or a missing path and a file
InputSets == {{i} : i \in Items} \cup {{MissingItem(<<"m">>), FileItem(<<"a">>, T_aA)}}

\* native/extended, and for extended whether 7z is installed
Platforms == {<<"native", FALSE>>, <<"extended", TRUE>>, <<"extended", FALSE>>}

----------------------------------------------------------------------------
(* Control state.                                                          *)

Frame(fn, dir, mode, todo, cur, at, temp) ==
    [fn |-> fn, dir |-> dir, mode |-> mode, todo |-> todo, cur |-> cur, at |-> at, temp |-> temp]

\* a fresh call of handle_files(dir, mode) / clean_files(dir, mode): the
\* listing is taken once, on entry
WalkFrame(f, dir, mode) ==
    Frame(IF variant = "native" THEN "handle_files" ELSE "clean_files",
          dir, mode, Children(f, Resolve(dir)), None, "loop", None)

Running == exit_code = -1

out_dir == Join(OutputArg, RegexFilter)

Init ==
    /\ \E pl \in Platforms : variant = pl[1] /\ sevenzip = pl[2]
    /\ \E m \in BOOLEAN, r \in BOOLEAN, fl \in FilterLists,
          st \in {"ok", "missing", "invalid"}, inp \in InputSets :
          args = [modify |-> m, rename |-> r, filter |-> st, rules |-> fl, input |-> inp]
    /\ filter_list = <<>>
    /\ temp_dir = None
    /\ \E old \in BOOLEAN :
          fs = IF old
               THEN (OutputArg :> Dir) @@ (out_dir :> Dir) @@ (Join(out_dir, OldOutput) :> T_q)
               ELSE (OutputArg :> Dir)
    /\ stack = <<>>
    /\ pc = "start"
    /\ exit_code = -1
    /\ log = <<>>

\* what the with-blocks of the extended variant remove on the way out
Unwind(f) ==
    IF variant = "extended" /\ temp_dir /= None THEN rmtree(f, temp_dir) ELSE f

\* the step went through: the program goes on with stack st
Continue(f, ev, st) ==
    /\ fs' = f
    /\ log' = log \o ev
    /\ stack' = st
    /\ UNCHANGED <<variant, sevenzip, args, filter_list, temp_dir, pc, exit_code>>

\* an exception nothing catches: traceback, exit status 1
Crash(f, ev, err) ==
    /\ fs' = Unwind(f)
    /\ log' = log \o ev \o <<Ev("crash", <<err>>, None, 0)>>
    /\ stack' = <<>>
    /\ pc' = "crashed"
    /\ exit_code' = 1
    /\ UNCHANGED <<variant, sevenzip, args, filter_list, temp_dir>>

Step(res, st) ==
    IF res.err = "none" THEN Continue(res.f, res.ev, st) ELSE Crash(res.f, res.ev, res.err)

\* sys.exit(1)
Exit1(f, ev) ==
    /\ fs' = Unwind(f)
    /\ log' = log \o ev
    /\ stack' = <<>>
    /\ pc' = "fatal"
    /\ exit_code' = 1
    /\ UNCHANGED <<variant, sevenzip, args, filter_list, temp_dir>>

----------------------------------------------------------------------------
(* main()                                                                  *)

\* main up to the creation of the scratch directory
main_start ==
    /\ Running /\ pc = "start"
    /\ IF ~(args.modify \/ args.rename) \/ args.filter /= "ok"
       THEN /\ pc' = "fatal"
            /\ exit_code' = 1
            /\ log' = log \o <<Ev("FATAL", None, None, 0)>>
            /\ UNCHANGED <<variant, sevenzip, args, filter_list, temp_dir, fs, stack>>
       ELSE /\ filter_list' = args.rules
            /\ temp_dir' = TempRoot
            /\ fs' = Put(fs, TempRoot, Dir)
            /\ stack' = <<Frame("copy", None, "", args.input, None, "loop", None)>>
            /\ pc' = "copy"
            /\ UNCHANGED <<variant, sevenzip, args, exit_code, log>>

\* shutil.copytree(src, dst) / shutil.copyfile(src, dst) of an input
CopyItem(f, item) ==
    LET dst == Join(temp_dir, Basename(RStrip(item.path, Sep)))
    IN  IF item.isdir
        THEN IF Exists(f, dst) THEN Raise("FileExistsError", f)
             ELSE Ok(Overlay(f, Tree(dst, item.m)))
        ELSE WriteFile(f, dst, item.m[<<>>])

\* one round of the loop over args.input
main_copy ==
    /\ Running /\ pc = "copy" /\ stack /= <<>>
    /\ \E item \in Head(stack).todo :
          LET rest == [Head(stack) EXCEPT !.todo = @ \ {item}]
              cp   == CopyItem(fs, item)
          IN  IF ~item.exists
              THEN IF variant = "native"
                   THEN Continue(fs, <<Ev("ERROR", item.path, None, 0)>>, <<rest>>)
                   ELSE Exit1(fs, <<Ev("ERROR", item.path, None, 0)>>)
              ELSE Step(Res(cp.err, cp.f, <<>>), <<rest>>)

main_copied ==
    /\ Running /\ pc = "copy" /\ stack /= <<>> /\ Head(stack).todo = {}
    /\ pc' = "modify"
    /\ stack' = <<>>
    /\ UNCHANGED <<variant, sevenzip, args, filter_list, temp_dir, fs, exit_code, log>>

\* a pass that goes the wrong way round: renames first
PassMode_swapped(k) == IF k = 1 THEN "rename" ELSE "modify"

\* the mode of main's k-th traversal: content first, names second
PassMode(k) == IF k = 1 THEN "modify" ELSE "rename"

\* the flag that requests a traversal in mode
Requested(mode) == IF mode = "modify" THEN args.modify ELSE args.rename

\* main's k-th traversal, made if its flag is set
Pass(k, next) ==
    /\ pc' = next
    /\ stack' = IF Requested(PassMode(k))
                THEN <<WalkFrame(fs, temp_dir, PassMode(k))>> ELSE <<>>
    /\ log' = IF Requested(PassMode(k))
              THEN log \o <<Ev("pass", temp_dir, None, k)>> ELSE log
    /\ UNCHANGED <<variant, sevenzip, args, filter_list, temp_dir, fs, exit_code>>

\* if args.modify: the content pass
main_modify ==
    /\ Running /\ pc = "modify" /\ stack = <<>>
    /\ Pass(1, "rename")

\* if args.rename: the rename pass
main_rename ==
    /\ Running /\ pc = "rename" /\ stack = <<>>
    /\ Pass(2, "promote")

Finish(f) ==
    /\ fs' = f
    /\ pc' = "done"
    /\ exit_code' = 0
    /\ stack' = <<>>
    /\ UNCHANGED <<variant, sevenzip, args, filter_list, temp_dir, log>>

\* the old output removed; native: shutil.move by os.rename when the output
\* is on the scratch directory's file system, else by copy; extended: copy
main_promote ==
    /\ Running /\ pc = "promote" /\ stack = <<>>
    /\ LET f1 == rmtree(fs, out_dir)
           copying == /\ fs' = Put(f1, out_dir, Dir)
                      /\ pc' = "copying"
                      /\ stack' = <<Frame("copytree", temp_dir, "", Under(f1, temp_dir),
                                          None, "loop", None)>>
                      /\ UNCHANGED <<variant, sevenzip, args, filter_list, temp_dir,
                                     exit_code, log>>
       IN  \/ variant = "native" /\ Finish(os_rename(f1, temp_dir, out_dir).f)
           \/ copying

\* shutil.copytree, one entry of the scratch tree at a time, a directory
\* before what it holds
main_copytree ==
    /\ Running /\ pc = "copying"
    /\ \E src \in Head(stack).todo :
          LET dst == Reroot(src, temp_dir, out_dir)
          IN  /\ Exists(fs, Dirname(dst))
              /\ Continue(Put(fs, dst, fs[src]), <<>>,
                          <<[Head(stack) EXCEPT !.todo = @ \ {src}]>>)

\* the copy is complete: the scratch directory is removed
main_copytree_done ==
    /\ Running /\ pc = "copying" /\ Head(stack).todo = {}
    /\ Finish(rmtree(fs, temp_dir))

\* KeyboardInterrupt, at any point of main
Interrupt ==
    /\ Running
    /\ fs' = IF temp_dir /= None THEN rmtree(fs, temp_dir) ELSE fs
    /\ pc' = "interrupted"
    /\ exit_code' = 1
    /\ stack' = <<>>
    /\ log' = log \o <<Ev("interrupt", <<pc>>, None,
                          IF pc = "copying" THEN Cardinality(Head(stack).todo) ELSE 0)>>
    /\ UNCHANGED <<variant, sevenzip, args, filter_list, temp_dir>>

----------------------------------------------------------------------------
(* Traversal Engine.  The children of a directory are visited in the order *)
(* os.listdir returns them, which is arbitrary: any child still to do may  *)
(* be the next.                                                            *)

Top == Head(stack)

\* the innermost call is the loop of handle_files / clean_files
InLoop(fn) == Running /\ stack /= <<>> /\ Top.fn = fn /\ Top.at = "loop"

\* the caller's frame once path is taken from the listing
Taken(path, at) == [Top EXCEPT !.todo = @ \ {path}, !.cur = path, !.at = at]

\* a directory child: recurse; in rename mode the directory is renamed on return
WalkDir(fn, path) ==
    /\ IsDir(fs, path)
    /\ Continue(fs, <<Ev("enter", path, None, 0)>>,
                <<WalkFrame(fs, path, Top.mode),
                  Taken(path, IF Top.mode = "rename" THEN "dir_done" ELSE "loop")>>
                \o Tail(stack))

\* the recursive call returned: rename_a_file(path) / rename_file(path)
WalkDirDone(fn) ==
    /\ Running /\ stack /= <<>> /\ Top.fn = fn /\ Top.at = "dir_done"
    /\ \E r \in RandomStrings :
          Step(rename_a_file(filter_list, fs, Top.cur, r),
               <<[Top EXCEPT !.at = "loop"]>> \o Tail(stack))

\* the listing is exhausted: the call returns
walk_return ==
    /\ Running /\ stack /= <<>>
    /\ Top.fn \in {"handle_files", "clean_files"} /\ Top.at = "loop" /\ Top.todo = {}
    /\ Continue(fs, <<Ev("leave", Top.dir, None, 0)>>, Tail(stack))

\* src/regex-filter.py, lines 154-160
handle_files_dir ==
    /\ InLoop("handle_files")
    /\ \E path \in Top.todo : WalkDir("handle_files", path)

handle_files_dir_done == WalkDirDone("handle_files")

\* a finish that resolves the archive's name first and repacks afterwards
RenameThenRepack(rp, path, mode, r) ==
    LET rn == rename_a_file(filter_list, rp.f, path, r)
    IN  IF rp.err /= "none" \/ mode /= "rename" THEN rp
        ELSE Res(rn.err, rn.f, rn.ev \o rp.ev)

\* the rest of handle_zip / handle_tar after a repack: in rename mode the
\* archive itself is renamed
RepackThenRename(rp, path, mode, r) ==
    LET rn == rename_a_file(filter_list, rp.f, path, r)
    IN  IF rp.err /= "none" \/ mode /= "rename" THEN rp
        ELSE Res(rn.err, rn.f, rp.ev \o rn.ev)

\* lines 162-164 and handle_zip up to the recursive call
handle_files_zip ==
    /\ InLoop("handle_files")
    /\ \E path \in Top.todo :
          /\ ~IsDir(fs, path)
          /\ is_zipfile(fs, path)
          /\ LET x == handle_zip_extract(fs, path)
                 temp == Replace(path, DotZip, <<>>)
             IN  IF x.err = "none"
                 THEN Continue(x.f, x.ev,
                               <<WalkFrame(x.f, temp, Top.mode),
                                 Frame("handle_zip", None, Top.mode, {}, path, "traversed", temp),
                                 Taken(path, "loop")>> \o Tail(stack))
                 ELSE IF x.err = "caught"
                 THEN Continue(x.f, x.ev, <<Taken(path, "loop")>> \o Tail(stack))
                 ELSE Crash(x.f, x.ev, x.err)

\* handle_zip after the recursive call returned
handle_zip_finish ==
    /\ Running /\ stack /= <<>> /\ Top.fn = "handle_zip"
    /\ \E r \in RandomStrings :
          Step(RepackThenRename(handle_zip_repack(fs, Top.cur, Top.temp), Top.cur, Top.mode, r),
               Tail(stack))

\* line 166 for a path that no longer exists: tarfile.is_tarfile raises
handle_files_vanished ==
    /\ InLoop("handle_files")
    /\ \E path \in Top.todo :
          /\ ~Exists(fs, path)
          /\ Crash(fs, <<Ev("call_probe", path, None, 0)>>, "FileNotFoundError")

\* lines 166-168 and handle_tar up to the recursive call
handle_files_tar ==
    /\ InLoop("handle_files")
    /\ \E path \in Top.todo :
          /\ ~IsDir(fs, path)
          /\ ~is_zipfile(fs, path)
          /\ is_tarfile(fs, path)
          /\ LET x == handle_tar_extract(fs, path)
                 temp == tar_temp(path)
             IN  IF x.err = "none"
                 THEN Continue(x.f, x.ev,
                               <<WalkFrame(x.f, temp, Top.mode),
                                 Frame("handle_tar", None, Top.mode, {}, path, "traversed", temp),
                                 Taken(path, "loop")>> \o Tail(stack))
                 ELSE IF x.err = "caught"
                 THEN Continue(x.f, x.ev, <<Taken(path, "loop")>> \o Tail(stack))
                 ELSE Crash(x.f, x.ev, x.err)

\* handle_tar after the recursive call returned
handle_tar_finish ==
    /\ Running /\ stack /= <<>> /\ Top.fn = "handle_tar"
    /\ \E r \in RandomStrings :
          Step(RepackThenRename(handle_tar_repack(fs, Top.cur, Top.temp), Top.cur, Top.mode, r),
               Tail(stack))

\* neither a directory, a zip nor a tar
NativePlain(path) ==
    /\ Exists(fs, path)
    /\ ~IsDir(fs, path)
    /\ ~is_zipfile(fs, path)
    /\ ~is_tarfile(fs, path)

\* lines 170-172
handle_files_gzip ==
    /\ InLoop("handle_files")
    /\ \E path \in Top.todo :
          /\ NativePlain(path)
          /\ EndsWith(path, DotGz) /\ Top.mode = "modify"
          /\ Step(handle_gzip(filter_list, fs, path), <<Taken(path, "loop")>> \o Tail(stack))

\* lines 174-177
handle_files_plain ==
    /\ InLoop("handle_files")
    /\ \E path \in Top.todo, r \in RandomStrings :
          /\ NativePlain(path)
          /\ ~(EndsWith(path, DotGz) /\ Top.mode = "modify")
          /\ Step(IF Top.mode = "modify"
                  THEN modify_a_file("native", filter_list, fs, path)
                  ELSE rename_a_file(filter_list, fs, path, r),
                  <<Taken(path, "loop")>> \o Tail(stack))

\* src/regex_filter.py, lines 93-97
clean_files_dir ==
    /\ InLoop("clean_files")
    /\ \E path \in Top.todo : WalkDir("clean_files", path)

clean_files_dir_done == WalkDirDone("clean_files")

\* lines 99-103: the test passes, the archive becomes a directory and is walked
clean_files_archive ==
    /\ InLoop("clean_files")
    /\ sevenzip
    /\ \E path \in Top.todo, ok \in BOOLEAN :
          /\ ~IsDir(fs, path)
          /\ Test7z(fs, path) = "ok"
          /\ LET x == decompress(fs, path, ok)
             IN  Continue(x.f, x.ev,
                          <<WalkFrame(x.f, path, Top.mode), Taken(path, "arc_done")>>
                          \o Tail(stack))

\* lines 104-107
clean_files_archive_done ==
    /\ Running /\ stack /= <<>> /\ Top.fn = "clean_files" /\ Top.at = "arc_done"
    /\ \E r \in RandomStrings, ok \in BOOLEAN :
          Step(RepackThenRename(compress(fs, Top.cur, ok), Top.cur, Top.mode, r),
               <<[Top EXCEPT !.at = "loop"]>> \o Tail(stack))

\* lines 108-111
clean_files_failed ==
    /\ InLoop("clean_files")
    /\ sevenzip
    /\ \E path \in Top.todo :
          /\ ~IsDir(fs, path)
          /\ Test7z(fs, path) = "failed"
          /\ Continue(fs, <<EvK("EXTRACT_ERROR", path, None, 0, KindOf(fs[Resolve(path)]))>>,
                      <<Taken(path, "loop")>> \o Tail(stack))

\* lines 113-117
clean_files_plain ==
    /\ InLoop("clean_files")
    /\ \E path \in Top.todo, r \in RandomStrings :
          /\ ~IsDir(fs, path)
          /\ ~sevenzip \/ Test7z(fs, path) = "not_archive"
          /\ Step(IF Top.mode = "modify"
                  THEN modify_a_file("extended", filter_list, fs, path)
                  ELSE rename_a_file(filter_list, fs, path, r),
                  <<Taken(path, "loop")>> \o Tail(stack))

----------------------------------------------------------------------------

Next ==
    \/ main_start
    \/ main_copy
    \/ main_copied
    \/ main_modify
    \/ main_rename
    \/ main_promote
    \/ main_copytree
    \/ main_copytree_done
    \/ Interrupt
    \/ walk_return
    \/ handle_files_dir
    \/ handle_files_dir_done
    \/ handle_files_zip
    \/ handle_zip_finish
    \/ handle_files_vanished
    \/ handle_files_tar
    \/ handle_tar_finish
    \/ handle_files_gzip
    \/ handle_files_plain
    \/ clean_files_dir
    \/ clean_files_dir_done
    \/ clean_files_archive
    \/ clean_files_archive_done
    \/ clean_files_failed
    \/ clean_files_plain

Spec == Init /\ [][Next]_vars

----------------------------------------------------------------------------
(* The content modifier on its own: one text file in the scratch           *)
(* directory, the content pass about to visit it, for every text and every *)
(* rule file within the bounds.                                            *)

TextChars == {"a", "A", "b"}
PureTexts == UNION {[1..n -> TextChars] : n \in 0..MaxTextLen}
PureRules == {[regex |-> x, sub |-> y] :
                 x \in {<<"a">>, <<"a", "a">>, <<"B">>}, y \in {<<>>, <<"a", "b">>}}
\* a rule file is a JSON object: no pattern occurs twice
PureFilterLists ==
    {fl \in UNION {[1..n -> PureRules] : n \in 0..MaxRules} :
        \A i, j \in DOMAIN fl : i /= j => fl[i].regex /= fl[j].regex}
PureFile == <<"f">>

InitModify ==
    /\ variant \in {"native", "extended"}
    /\ sevenzip = FALSE
    /\ \E rules \in PureFilterLists, t \in PureTexts :
          /\ args = [modify |-> TRUE, rename |-> FALSE, filter |-> "ok", rules |-> rules,
                     input |-> {FileItem(PureFile, Text(t))}]
          /\ filter_list = rules
          /\ fs = (OutputArg :> Dir) @@ (TempRoot :> Dir) @@ (Join(TempRoot, PureFile) :> Text(t))
    /\ temp_dir = TempRoot
    /\ stack = <<WalkFrame(fs, temp_dir, "modify")>>
    /\ pc = "rename"
    /\ exit_code = -1
    /\ log = <<Ev("pass", temp_dir, None, 1)>>

NextModify ==
    \/ handle_files_plain
    \/ clean_files_plain
    \/ walk_return

SpecModify == InitModify /\ [][NextModify]_vars

----------------------------------------------------------------------------
(* What the claims speak of, stated apart from the program's loops.        *)

\* the positions at which regex matches text, case ignored
Occurrences(regex, text) ==
    {i \in 1..(Len(text) - Len(regex) + 1) :
        \A k \in 1..Len(regex) : Lower(text[i + k - 1]) = Lower(regex[k])}

\* the non-overlapping matches, leftmost first: an occurrence counts unless
\* a counted one before it overlaps it
Matches(regex, text) ==
    CHOOSE S \in SUBSET Occurrences(regex, text) :
        \A i \in Occurrences(regex, text) :
            i \in S <=> ~\E j \in S : j < i /\ i < j + Len(regex)

\* text with every counted match replaced by sub
Substituted(regex, sub, text) ==
    LET M == Matches(regex, text)
        Covered(i) == \E j \in M : j <= i /\ i < j + Len(regex)
    IN  Flatten([i \in 1..(Len(text) + 1) |->
                    (IF i \in M THEN sub ELSE <<>>)
                    \o (IF i <= Len(text) /\ ~Covered(i) THEN <<text[i]>> ELSE <<>>)])

RECURSIVE RuleOutput(_, _, _)
\* the text rule n sees: the output of rules 1..n-1
RuleOutput(rules, text, n) ==
    IF n = 0 THEN text
    ELSE Substituted(rules[n].regex, rules[n].sub, RuleOutput(rules, text, n - 1))

RECURSIVE Sum(_, _)
Sum(F, n) == IF n = 0 THEN 0 ELSE F[n] + Sum(F, n - 1)

\* the sum over the rules of the matches of rule n in the output of rules 1..n-1
ProgressiveCount(rules, text) ==
    Sum([n \in 1..Len(rules) |->
            Cardinality(Matches(rules[n].regex, RuleOutput(rules, text, n - 1)))],
        Len(rules))

LogIdx == 1..Len(log)

----------------------------------------------------------------------------
(* C5: whenever the Content Modifier reports a file as modified, the count *)
(* it reports is the sum over the rules, in rule-file order, of the        *)
(* non-overlapping matches of rule N in the text produced by rules 1..N-1, *)
(* and the text it wrote just before is that of all rules applied once in  *)
(* that order.                                                             *)
C5_CountAndText ==
    \A j \in LogIdx :
        log[j].e = "MODIFIED" =>
            /\ log[j].n = ProgressiveCount(filter_list, log[j].q)
            /\ j > 1 /\ log[j - 1].e = "write" /\ log[j - 1].p = log[j].p
            /\ log[j - 1].q = RuleOutput(filter_list, log[j].q, Len(filter_list))
            /\ (j = Len(log) /\ Exists(fs, log[j].p)) =>
                   fs[Resolve(log[j].p)] = Text(log[j - 1].q)

\* C5 witness: a file was modified under two rules of which the second
\* matches nothing in the text as read, yet matches of it were counted in
\* the output of the first
C5_Witness ==
    \E j \in LogIdx :
        /\ log[j].e = "MODIFIED"
        /\ Len(filter_list) = 2
        /\ Cardinality(Matches(filter_list[2].regex, log[j].q)) = 0
        /\ log[j].n > Cardinality(Matches(filter_list[1].regex, log[j].q))

----------------------------------------------------------------------------
\* the log holds an event e
Logged(e) == \E j \in LogIdx : log[j].e = e

(* C1: no file or directory is ever overwritten or lost because of a       *)
(* rename collision: every move the Name Resolver makes goes to a path     *)
(* that does not exist when it is made.                                    *)
C1_NoOverwrite ==
    \A j \in LogIdx : log[j].e = "rename" => log[j].n = 0

(* C7: when both content modification and renaming are requested, every    *)
(* call of the Content Modifier and every write it makes comes before the  *)
(* first call of the Name Resolver, and the rename traversal starts only   *)
(* after the content traversal has returned from the scratch root.         *)
C7_ContentBeforeNames ==
    /\ \A i, j \in LogIdx :
          (/\ log[i].e \in {"call_rename", "rename"}
           /\ log[j].e \in {"call_modify", "write", "gz_extract", "gz_repack"}) => j < i
    /\ \A i \in LogIdx :
          (args.modify /\ log[i].e \in {"call_rename", "rename"}) =>
              \E j \in 1..(i - 1) : log[j].e = "leave" /\ log[j].p = temp_dir

\* C7 witness: a run with both flags that rewrote a file, renamed an item
\* and finished
C7_Witness ==
    /\ args.modify /\ args.rename /\ pc = "done"
    /\ Logged("write") /\ Logged("rename")

----------------------------------------------------------------------------
\* the exceptions the archive codecs raise for an archive they cannot unpack
ExtractionFailures == {<<"RuntimeError">>, <<"BadZipFile">>, <<"ReadError">>,
                       <<"ExtractError">>, <<"BadGzipFile">>, <<"EOFError">>}

(* C2: a failed extraction is caught and reported and the traversal goes   *)
(* on: no run ends with an exception of an archive codec, and when the     *)
(* failure has just been reported the archive is still a file at its path. *)
C2_ExtractFailureContained ==
    /\ \A j \in LogIdx : log[j].e = "crash" => log[j].p \notin ExtractionFailures
    /\ \A j \in LogIdx :
          (log[j].e = "EXTRACT_ERROR" /\ j = Len(log)) => IsFile(fs, log[j].p)

\* the extraction that a repack at position j closes
ExtractOf(j) ==
    CHOOSE i \in 1..(j - 1) :
        /\ log[i].e = "extract" /\ log[i].p = log[j].p
        /\ \A h \in (i + 1)..(j - 1) : ~(log[h].e = "extract" /\ log[h].p = log[j].p)

(* C3: every repack follows an extraction of the same path and writes an   *)
(* archive of the ArchiveKind that the extracted archive had.              *)
C3_RepackKeepsKind ==
    \A j \in LogIdx :
        log[j].e = "repack" =>
            /\ \E i \in 1..(j - 1) : log[i].e = "extract" /\ log[i].p = log[j].p
            /\ log[ExtractOf(j)].k = log[j].k

\* the scratch copy of the inputs as main laid it out
Copied ==
    LET F[S \in SUBSET args.input] ==
            IF S = {} THEN (temp_dir :> Dir)
            ELSE LET item == CHOOSE x \in S : TRUE
                     rest == F[S \ {item}]
                 IN  IF item.exists THEN CopyItem(rest, item).f ELSE rest
    IN  F[args.input]

\* a content-only run whose content pass has returned
ContentPassOver == args.modify /\ ~args.rename /\ pc = "promote"

(* C4: the Content Modifier writes exactly when it counted a match, and    *)
(* after a content-mode run every text file of the inputs in which no rule *)
(* matches is where it was, with the content it had.                       *)
C4_NoMatchUntouched ==
    /\ \A j \in LogIdx :
          /\ log[j].e = "write" => (j < Len(log) => log[j + 1].e = "MODIFIED" /\ log[j + 1].n >= 1)
          /\ log[j].e = "NOT_MODIFIED" => ProgressiveCount(filter_list, log[j].q) = 0
    /\ ContentPassOver =>
          \A q \in DOMAIN Copied :
              (Copied[q].t = "text" /\ ProgressiveCount(filter_list, Copied[q].s) = 0)
                  => (q \in DOMAIN fs /\ fs[q] = Copied[q])

(* C6: traversal is post-order: a directory is renamed only after the      *)
(* traversal of its contents has returned, and every path handed to the    *)
(* Content Modifier, the Name Resolver or the archive probe exists when it *)
(* is handed over.                                                         *)
C6_PostOrder ==
    /\ \A j \in LogIdx :
          log[j].e \in {"call_modify", "call_rename", "call_probe"} => log[j].n = 1
    /\ \A j \in LogIdx :
          (log[j].e = "call_rename" /\ \E i \in 1..(j - 1) : log[i].e = "enter" /\ log[i].p = log[j].p)
              => \E i \in 1..(j - 1) : log[i].e = "leave" /\ log[i].p = log[j].p

----------------------------------------------------------------------------
ArchiveKinds == {"zip", "tar", "tar.gz", "gzip", "generic-external"}

\* the kinds the running variant supports: the native codecs, or whatever
\* the external archiver opens; none when the archiver is missing
SupportedKinds ==
    IF variant = "native" THEN {"zip", "tar", "tar.gz", "gzip"}
    ELSE IF sevenzip THEN ArchiveKinds ELSE {}

\* the Name Resolver is called at j on an archive, right after its repack
RenamedAfterRepack(j) ==
    /\ j > 1
    /\ log[j - 1].e \in {"repack", "gz_repack"}
    /\ log[j - 1].p = log[j].p

\* the repack at j closes an extraction whose directory was walked in between
RepackedAfterWalk(j) ==
    \E i \in 1..(j - 1) :
        /\ log[i].e = "extract" /\ log[i].p = log[j].p
        /\ \E h \in (i + 1)..(j - 1) : log[h].e = "leave" /\ log[h].p = log[i].q

(* C8, as the spec states it: every archive of any kind, in every active   *)
(* mode, is extracted, walked and repacked, and in rename mode the Name    *)
(* Resolver is called on it right after its repack.                        *)
C8_ArchiveSequence ==
    \A j \in LogIdx :
        /\ (log[j].e = "call_rename" /\ log[j].k \in SupportedKinds) => RenamedAfterRepack(j)
        /\ log[j].e = "repack" => RepackedAfterWalk(j)

\* position j lies in main's k-th traversal
InPass(j, k) ==
    \E i \in 1..(j - 1) :
        /\ log[i].e = "pass" /\ log[i].n = k
        /\ \A h \in (i + 1)..(j - 1) : log[h].e /= "pass"

(* C8, amended: the sequence extract, walk, repack, rename holds for every *)
(* archive but a gzip file of the native variant; that one is unpacked,    *)
(* handed to the Content Modifier and repacked in the content traversal    *)
(* only, and in the rename traversal it is renamed without being unpacked. *)
C8_ArchiveSequenceAmended ==
    \A j \in LogIdx :
        /\ (/\ log[j].e = "call_rename"
            /\ log[j].k \in SupportedKinds
            /\ ~(variant = "native" /\ log[j].k = "gzip")) => RenamedAfterRepack(j)
        /\ log[j].e = "repack" => RepackedAfterWalk(j)
        /\ log[j].e = "gz_repack" =>
              \E i \in 1..(j - 1) :
                  /\ log[i].e = "gz_extract" /\ log[i].p = log[j].p
                  /\ \E h \in (i + 1)..(j - 1) :
                        log[h].e = "call_modify" /\ log[h].p = log[i].q
        /\ log[j].e \in {"gz_extract", "gz_repack"} => InPass(j, 1)
        /\ (variant = "native" /\ log[j].e = "call_rename" /\ log[j].k = "gzip") =>
              ~RenamedAfterRepack(j)

\* C8 witness: a rename run walked an archive nested in an archive, and the
\* outer archive was handed to the Name Resolver right after its repack
C8_Witness ==
    /\ args.rename
    /\ \E j \in LogIdx :
          /\ log[j].e = "call_rename" /\ log[j].k \in SupportedKinds /\ RenamedAfterRepack(j)
          /\ \E i, h \in 1..(j - 1) :
                /\ i < h
                /\ log[i].e = "extract" /\ log[i].p = log[j].p
                /\ log[h].e = "extract" /\ StartsWith(log[h].p, log[i].q \o <<Sep>>)

\* C8 witness of the amendment: a gzip file of the native variant was
\* handed to the Name Resolver in the rename traversal, not unpacked
C8_WitnessGzip ==
    /\ variant = "native"
    /\ \E j \in LogIdx :
          /\ log[j].e = "call_rename" /\ log[j].k = "gzip"
          /\ InPass(j, 2) /\ ~RenamedAfterRepack(j)

----------------------------------------------------------------------------
\* the output location holds what it held before the run
PriorOutput ==
    /\ Exists(fs, Join(out_dir, OldOutput))
    /\ Under(fs, out_dir) = {Join(out_dir, OldOutput)}

\* the interrupt came while entries of the result were still to be copied
CopyCutShort == log[Len(log)].e = "interrupt" /\ log[Len(log)].n > 0

(* C9: when a run is cancelled by a user interrupt, the scratch directory  *)
(* is gone when the process exits, and the output location is absent, or   *)
(* holds what it held before the run, or holds the whole result: never a   *)
(* part of it.                                                             *)
C9_InterruptLeavesNoPart ==
    (pc = "interrupted" /\ temp_dir /= None) =>
        /\ ~Exists(fs, temp_dir)
        /\ ~Exists(fs, out_dir) \/ PriorOutput \/ ~CopyCutShort

----------------------------------------------------------------------------
\* the container formats the running variant unpacks
SupportedKindTypes == IF variant = "native" \/ sevenzip THEN {"zip", "tar"} ELSE {}

\* a member that no rule changes
Unmatched(d) ==
    \/ d.t = "bin"
    \/ d.t = "text" /\ ProgressiveCount(filter_list, d.s) = 0

(* C10: after a content traversal an archive of the inputs holds the file  *)
(* paths it held before, and every member in which no rule matches has the *)
(* content it had.                                                         *)
C10_RoundTrip ==
    ContentPassOver =>
        \A q \in DOMAIN Copied :
            (Dirname(q) = temp_dir /\ Copied[q].t \in {"zip", "tar"} /\ Copied[q].t \in SupportedKindTypes) =>
                /\ q \in DOMAIN fs
                /\ DOMAIN fs[q].m = DOMAIN Copied[q].m
                /\ \A rel \in DOMAIN Copied[q].m :
                      Unmatched(Copied[q].m[rel]) => fs[q].m[rel] = Copied[q].m[rel]

----------------------------------------------------------------------------
(* C11: extraction unpacks into a location that was not there before: no   *)
(* extraction writes to a path that exists, and none fails because the     *)
(* path it wants is taken.                                                 *)
C11_ExtractFresh ==
    \A j \in LogIdx :
        /\ log[j].e \in {"extract", "gz_extract"} => log[j].n = 0
        /\ log[j].e = "crash" => log[j].p /= <<"FileExistsError">>

----------------------------------------------------------------------------
(* C12: whether a path is treated as an archive is decided by its content, *)
(* never by its name: an extraction is attempted, and an extraction error  *)
(* reported, only for a file whose content is an archive, and a file that  *)
(* no format accepts is handled as an ordinary file.                       *)
C12_ProbeByContent ==
    \A j \in LogIdx :
        log[j].e \in {"extract", "gz_extract", "EXTRACT_ERROR"} => log[j].k \in ArchiveKinds

----------------------------------------------------------------------------
\* the lines a traversal prints for an entry
Lines == StatusLines \cup {"READ_ERROR"}

\* both traversals are over, or were not asked for
PassesOver == (pc = "promote" /\ stack = <<>>) \/ pc \in {"copying", "done"}

\* the directories and archives that traversal k went into: the directories
\* entered, without the scratch root and the working directories of
\* extractions, and the archives extracted
Containers(k) ==
    ({log[j].p : j \in {i \in LogIdx : log[i].e = "enter" /\ InPass(i, k)}}
        \ ({temp_dir} \cup {log[j].q : j \in {i \in LogIdx : log[i].e = "extract"}}))
    \cup {log[j].p : j \in {i \in LogIdx : log[i].e \in {"extract", "gz_extract"} /\ InPass(i, k)}}

\* the entries traversal k processed
Processed(k) ==
    Containers(k) \cup
    {log[j].p : j \in {i \in LogIdx : /\ log[i].e \in {"call_modify", "call_rename", "EXTRACT_ERROR"}
                                       /\ InPass(i, k)}}

\* the number of lines of the kinds in K that traversal k printed for path
LineCount(k, path, K) ==
    Cardinality({i \in LogIdx : InPass(i, k) /\ log[i].e \in K /\ log[i].p = path})

Answered(j, made, K) ==
    \/ j + 1 <= Len(log) /\ log[j + 1].e \in K /\ log[j + 1].p = log[j].p
    \/ /\ j + 2 <= Len(log)
       /\ log[j + 1].e = made /\ log[j + 1].p = log[j].p
       /\ log[j + 2].e \in K /\ log[j + 2].p = log[j].p

\* the line at position j answers a call
Asked(j, call, made) ==
    \/ j > 1 /\ log[j - 1].e = call /\ log[j - 1].p = log[j].p
    \/ j > 2 /\ log[j - 1].e = made /\ log[j - 2].e = call /\ log[j - 2].p = log[j].p

----------------------------------------------------------------------------
\* a condition the spec calls fatal holds for the run
FatalCondition ==
    \/ args.filter /= "ok"
    \/ ~(args.modify \/ args.rename)
    \/ \E item \in args.input : ~item.exists

(* C14: a run with a missing or unparseable rule file, with no mode flag   *)
(* or with an input path that does not exist never exits with status 0,    *)
(* makes no traversal, and leaves the output location absent or holding    *)
(* what it held.                                                           *)
C14_FatalAborts ==
    FatalCondition =>
        /\ exit_code /= 0
        /\ ~Logged("pass")
        /\ ~Exists(fs, out_dir) \/ PriorOutput

----------------------------------------------------------------------------
(* C15: in a run whose rule file is missing, does not parse or holds no    *)
(* rule, nothing is copied into the scratch tree and no traversal is made. *)
C15_NonEmptyFilter ==
    (args.filter /= "ok" \/ args.rules = <<>>) =>
        /\ temp_dir = None \/ Under(fs, temp_dir) = {}
        /\ ~Logged("pass")

----------------------------------------------------------------------------
(* The rename traversal run a second time over the tree the first one left: *)
(* what a second run of the program with --rename does to the output of    *)
(* the first.                                                              *)

InitAgain == Init /\ args.rename /\ args.filter = "ok"

\* handle_files(temp_dir, "rename") / clean_files(temp_dir_name, "rename"),
\* once more when the traversals of the run are over
rename_again ==
    /\ Running /\ pc = "promote" /\ stack = <<>>
    /\ pc' = "again"
    /\ stack' = <<WalkFrame(fs, temp_dir, "rename")>>
    /\ log' = log \o <<Ev("pass", temp_dir, None, 3)>>
    /\ UNCHANGED <<variant, sevenzip, args, filter_list, temp_dir, fs, exit_code>>

NextAgain ==
    \/ main_start
    \/ main_copy
    \/ main_copied
    \/ main_modify
    \/ main_rename
    \/ rename_again
    \/ walk_return
    \/ handle_files_dir
    \/ handle_files_dir_done
    \/ handle_files_zip
    \/ handle_zip_finish
    \/ handle_files_vanished
    \/ handle_files_tar
    \/ handle_tar_finish
    \/ handle_files_gzip
    \/ handle_files_plain
    \/ clean_files_dir
    \/ clean_files_dir_done
    \/ clean_files_archive
    \/ clean_files_archive_done
    \/ clean_files_failed
    \/ clean_files_plain

SpecAgain == InitAgain /\ [][NextAgain]_vars

\* the rules change no name a second time: applied to what they made of a
\* name the first rename traversal was given, they leave it as it is
RulesIdempotent ==
    \A j \in LogIdx :
        (log[j].e = "call_rename" /\ InPass(j, 2)) =>
            LET once == ResolveName(filter_list, Basename(log[j].p))
            IN  ResolveName(filter_list, once) = once

(* C16: with rules that are idempotent on what they produced, a second     *)
(* rename traversal over the result of the first renames nothing.          *)
C16_RenameIdempotent ==
    RulesIdempotent =>
        \A j \in LogIdx : InPass(j, 3) => log[j].e \notin {"rename", "RENAMED"}

----------------------------------------------------------------------------
(* C17: the Name Resolver changes the base name only: every move it makes  *)
(* leaves the entry in the directory it was in, whatever the replacements  *)
(* hold, and a name the rules leave as it is is not moved.                 *)
C17_SameParent ==
    \A j \in LogIdx :
        /\ log[j].e = "rename" =>
              Dirname(Resolve(log[j].q)) = Dirname(Resolve(log[j].p))
        /\ log[j].e = "NOT_RENAMED" =>
              ResolveName(filter_list, Basename(log[j].p)) = Basename(log[j].p)

----------------------------------------------------------------------------
(* C18: in the extended variant, after a content traversal every archive   *)
(* of the inputs that passed the archiver's test is an archive file at its *)
(* path again, whatever the status of the archiver's invocations.          *)
C18_NoEntryLost ==
    (variant = "extended" /\ sevenzip /\ ContentPassOver) =>
        \A q \in DOMAIN Copied :
            (Dirname(q) = temp_dir /\ Test7z(Copied, q) = "ok") =>
                IsFile(fs, q) /\ IsArchiveData(fs[q])

----------------------------------------------------------------------------
(* C19: a content traversal leaves the set of entry paths of the scratch   *)
(* tree as it was, and a rename traversal never calls the Content Modifier *)
(* and never writes or unpacks for it.                                     *)
C19_ModeIsolation ==
    /\ ContentPassOver => Under(fs, temp_dir) = Under(Copied, temp_dir)
    /\ \A j \in LogIdx :
          InPass(j, 2) => log[j].e \notin {"call_modify", "write", "gz_extract", "gz_repack"}

====
